---- MODULE Spec2Model ----
(***************************************************************************)
(* A model of src/app/api/fetch-html/route.ts (extractText, wordWrap,      *)
(* extractStructuredText and the POST handler) and of the fetcher section  *)
(* of src/components/html-fetcher.tsx (its state, fetchHtml and the        *)
(* length/content selectors).                                              *)
(*                                                                         *)
(* A JavaScript string is modelled as a sequence of one-character strings, *)
(* so that length, case mapping, whitespace normalisation, joining and the *)
(* regular-expression replacements are computed, not assumed.              *)
(*                                                                         *)
(* A document is the tree cheerio.load(html) hands to the code: a sequence *)
(* of nodes in document (pre-)order, each with its tag, the index of its   *)
(* parent, its attributes and, for a text leaf, its character data.        *)
(***************************************************************************)
EXTENDS Integers, Sequences, FiniteSets, TLC

----------------------------------------------------------------------------
(* Characters and strings *)

NL == "\n"

LowerChars ==
  <<"a","b","c","d","e","f","g","h","i","j","k","l","m",
    "n","o","p","q","r","s","t","u","v","w","x","y","z">>

UpperChars ==
  <<"A","B","C","D","E","F","G","H","I","J","K","L","M",
    "N","O","P","Q","R","S","T","U","V","W","X","Y","Z">>

\* \s of a JavaScript regular expression and of String.prototype.trim,
\* restricted to the whitespace characters the documents of the model use
IsSpace(c) == c \in {" ", NL, "\t"}

ToLowerChar(c) ==
  IF \E i \in DOMAIN UpperChars : UpperChars[i] = c
  THEN LowerChars[CHOOSE i \in DOMAIN UpperChars : UpperChars[i] = c]
  ELSE c

ToUpperChar(c) ==
  IF \E i \in DOMAIN LowerChars : LowerChars[i] = c
  THEN UpperChars[CHOOSE i \in DOMAIN LowerChars : LowerChars[i] = c]
  ELSE c

\* String.prototype.toLowerCase / toUpperCase
toLowerCase(s) == [i \in DOMAIN s |-> ToLowerChar(s[i])]

toUpperCase(s) == [i \in DOMAIN s |-> ToUpperChar(s[i])]

\* String.prototype.repeat on a one-character string
repeat(c, n) == [i \in 1..n |-> c]

MinOf(a, b) == IF a <= b THEN a ELSE b

\* the string without its leading whitespace
TrimLeft(s) ==
  IF \A i \in DOMAIN s : IsSpace(s[i]) THEN <<>>
  ELSE LET f == CHOOSE i \in DOMAIN s :
                  ~IsSpace(s[i]) /\ \A k \in 1..(i - 1) : IsSpace(s[k])
       IN SubSeq(s, f, Len(s))

\* the string without its trailing whitespace
TrimRight(s) ==
  IF \A i \in DOMAIN s : IsSpace(s[i]) THEN <<>>
  ELSE LET l == CHOOSE i \in DOMAIN s :
                  ~IsSpace(s[i]) /\ \A k \in (i + 1)..Len(s) : IsSpace(s[k])
       IN SubSeq(s, 1, l)

\* String.prototype.trim
trim(s) == TrimRight(TrimLeft(s))

Kept(r) == r.keep

\* the characters of a sequence of [c, keep] records that are marked keep
KeptChars(marked) ==
  LET k == SelectSeq(marked, Kept) IN [i \in DOMAIN k |-> k[i].c]

\* s.replace(/\s+/g, " "): every maximal run of whitespace becomes one space
CollapseSpace(s) ==
  KeptChars([i \in DOMAIN s |->
               [c |-> IF IsSpace(s[i]) THEN " " ELSE s[i],
                keep |-> \/ ~IsSpace(s[i])
                         \/ i = 1
                         \/ ~IsSpace(s[i - 1])]])

\* text.replace(/\s+/g, " ").trim()
normalize(s) == trim(CollapseSpace(s))

\* s.replace(/\n{3,}/g, "\n\n"): a maximal run of 3 or more newlines becomes 2
\* (a newline goes exactly when the two characters before it are newlines)
CollapseNewlines(s) ==
  KeptChars([i \in DOMAIN s |->
               [c |-> s[i],
                keep |-> ~(s[i] = NL /\ i >= 3 /\ s[i - 1] = NL /\ s[i - 2] = NL)]])

\* Array.prototype.join(sep) on an array of strings
RECURSIVE join(_, _)
join(arr, sep) ==
  IF arr = <<>> THEN <<>>
  ELSE IF Len(arr) = 1 THEN arr[1]
  ELSE arr[1] \o sep \o join(Tail(arr), sep)

\* String.prototype.split(sep) for a one-character separator
RECURSIVE split(_, _)
split(s, sep) ==
  IF \E i \in DOMAIN s : s[i] = sep
  THEN LET i == CHOOSE j \in DOMAIN s : s[j] = sep /\ \A k \in 1..(j - 1) : s[k] # sep
       IN <<SubSeq(s, 1, i - 1)>> \o split(SubSeq(s, i + 1, Len(s)), sep)
  ELSE <<s>>

\* the attribute selector [attr*="sub"]: sub occurs in s
Contains(s, sub) ==
  \E i \in 0..(Len(s) - Len(sub)) : SubSeq(s, i + 1, i + Len(sub)) = sub

----------------------------------------------------------------------------
(* wordWrap *)

\* as wrapFits, with the comparison made strict
wrapFitsStrict(currentLine, word, maxWidth) ==
  Len(currentLine) + Len(word) + 1 < maxWidth

\* the test of the loop body: currentLine.length + word.length + 1 <= maxWidth
wrapFits(currentLine, word, maxWidth) ==
  Len(currentLine) + Len(word) + 1 <= maxWidth

\* the for loop over words: wl is the array `lines`, cur is `currentLine`
RECURSIVE WrapLoop(_, _, _, _)
WrapLoop(words, wl, cur, maxWidth) ==
  IF words = <<>> THEN [wl |-> wl, cur |-> cur]
  ELSE LET word == Head(words) IN
       IF wrapFits(cur, word, maxWidth)
       THEN WrapLoop(Tail(words), wl,
                     cur \o (IF cur # <<>> THEN <<" ">> ELSE <<>>) \o word, maxWidth)
       ELSE WrapLoop(Tail(words),
                     IF cur # <<>> THEN Append(wl, cur) ELSE wl, word, maxWidth)

wordWrap(text, maxWidth) ==
  LET r == WrapLoop(split(text, " "), <<>>, <<>>, maxWidth)
      wl == IF r.cur # <<>> THEN Append(r.wl, r.cur) ELSE r.wl
  IN join(wl, <<NL>>)

----------------------------------------------------------------------------
(* The document tree and the cheerio queries the code makes on it *)

TextTag == "#text"

NoAttr == [hidden |-> FALSE, style |-> <<>>, ariaHidden |-> "", class |-> {}, role |-> ""]

\* strict ancestors of node n ($el.parents())
RECURSIVE Ancestors(_, _)
Ancestors(d, n) ==
  IF d[n].parent = 0 THEN {} ELSE {d[n].parent} \cup Ancestors(d, d[n].parent)

\* a selector: a tag name, [hidden], [style*=...], [aria-hidden=...], .class, [role=...]
SelTag(t) == [kind |-> "tag", arg |-> t]
SelHidden == [kind |-> "hidden", arg |-> ""]
SelStyle(sub) == [kind |-> "style", arg |-> sub]
SelAria(v) == [kind |-> "aria", arg |-> v]
SelClass(c) == [kind |-> "class", arg |-> c]
SelRole(r) == [kind |-> "role", arg |-> r]

Matches(node, sel) ==
  /\ node.tag # TextTag
  /\ CASE sel.kind = "tag" -> node.tag = sel.arg
       [] sel.kind = "hidden" -> node.attr.hidden
       [] sel.kind = "style" -> Contains(node.attr.style, sel.arg)
       [] sel.kind = "aria" -> node.attr.ariaHidden = sel.arg
       [] sel.kind = "class" -> sel.arg \in node.attr.class
       [] sel.kind = "role" -> node.attr.role = sel.arg

\* $(sel).remove(): the matching attached nodes leave the document with their subtrees
Remove(d, live, sel) ==
  LET hit == {n \in live : Matches(d[n], sel)}
  IN IF hit = {} THEN live
     ELSE {n \in live : n \notin hit /\ Ancestors(d, n) \cap hit = {}}

RECURSIVE RemoveAll(_, _, _)
RemoveAll(d, live, sels) ==
  IF sels = <<>> THEN live
  ELSE RemoveAll(d, Remove(d, live, Head(sels)), Tail(sels))

DisplayNoneSp == <<"d","i","s","p","l","a","y",":"," ","n","o","n","e">>
DisplayNone == <<"d","i","s","p","l","a","y",":","n","o","n","e">>

\* the removals of extractText, in the order of the code
TextNoise ==
  << SelTag("script"), SelTag("style"), SelTag("noscript"), SelTag("iframe"),
     SelTag("svg"), SelTag("head"), SelTag("nav"), SelTag("footer"),
     SelTag("header"), SelHidden, SelStyle(DisplayNoneSp), SelStyle(DisplayNone),
     SelAria("true"), SelTag("button"), SelTag("input"), SelTag("select"),
     SelTag("form"), SelClass("advertisement"), SelClass("ads"),
     SelRole("navigation"), SelRole("banner"), SelRole("complementary") >>

\* the removals of extractStructuredText, in the order of the code
StructNoise ==
  << SelTag("script"), SelTag("style"), SelTag("noscript"), SelTag("iframe"),
     SelTag("svg"), SelTag("head"), SelHidden, SelStyle(DisplayNoneSp),
     SelStyle(DisplayNone) >>

Headings == {"h1", "h2", "h3", "h4", "h5", "h6"}

\* extractText: the selector of find(), the selector of parents(), the children removed
TextSelected == Headings \cup {"p", "article", "section", "main", "li", "td", "th",
                               "blockquote", "figcaption"}
TextContainers == {"p", "li", "td", "th", "blockquote", "figcaption"}
TextExcluded == {"script", "style", "nav", "footer", "header", "aside"}

\* extractStructuredText: the same three
StructSelected == Headings \cup {"p", "li", "td", "th", "blockquote", "pre", "span",
                                 "div", "a"}
StructContainers == {"p", "li"} \cup Headings
StructExcluded == {"script", "style"}

\* $("body").find(tags): the attached elements below a body element, by tag
Find(d, live, tags) ==
  {n \in live : d[n].tag \in tags
                /\ \E b \in Ancestors(d, n) : d[b].tag = "body"}

\* the text leaves .text() reads for element n after
\* .clone().children(excluded).remove().end(): every attached text leaf below n
\* that is not below a child of n whose tag is excluded
TextLeaves(d, live, n, excluded) ==
  {m \in live :
     /\ d[m].tag = TextTag
     /\ n \in Ancestors(d, m)
     /\ ~ \E c \in Ancestors(d, m) : d[c].parent = n /\ d[c].tag \in excluded}

\* the character data of a set of text leaves, concatenated in document order
Concat(d, leaves) ==
  KeptChars(
    join([i \in DOMAIN d |->
            [k \in DOMAIN d[i].data |-> [c |-> d[i].data[k], keep |-> i \in leaves]]],
         <<>>))

\* $("title").text(): the text of every attached title element
TitleLeaves(d, live) ==
  {m \in live : d[m].tag = TextTag
                /\ \E t \in Ancestors(d, m) : d[t].tag = "title"}

----------------------------------------------------------------------------
(* The documents the model runs the code on *)

MaxBlocks == 2

El(tag, up) == [tag |-> tag, up |-> up, attr |-> NoAttr, data |-> <<>>]
ElA(tag, up, attr) == [tag |-> tag, up |-> up, attr |-> attr, data |-> <<>>]
Tx(up, data) == [tag |-> TextTag, up |-> up, attr |-> NoAttr, data |-> data]

Sp == <<" ">>
Hi == <<"H","i">>
DocTitle == <<"D","o","c">>
HelloWorld == <<"H","e","l","l","o"," ","W","o","r","l","d">>
HelloWorldLc == <<"h","e","l","l","o"," ","w","o","r","l","d">>
SideNote == <<"S","i","d","e"," ","n","o","t","e">>
TailText == <<" ","t","a","i","l"," ","t","e","x","t">>
CodeText == <<"l","e","t"," "," ","x",NL,"x","+","+">>
\* 15 and 16 characters once normalised; the raw data carries extra whitespace
Raw15 == <<" ",NL,"a","b","c","d","e"," "," ","f","g","h","i","j",NL,"k","l","m"," ">>
Raw16 == <<"a","b","c","d","e",NL,"f","g","h","i","j","\t"," ","k","l","m","n">>
\* 20 and 21 characters once normalised
Raw20 == <<"u","v","w","x","y"," ","u","v","w","x","y",NL,NL,"u","v","w","x","y"," ","u","v",NL>>
Raw21 == <<" ","o","p","q","r","s"," ","o","p","q","r","s"," ","o","p","q","r","s"," ","o","p","q">>
\* "Some text here that is long enough." (35 characters)
Long35 ==
  <<"S","o","m","e"," ","t","e","x","t"," ","h","e","r","e"," ","t","h","a","t"," ",
    "i","s"," ","l","o","n","g"," ","e","n","o","u","g","h",".">>
\* 107 characters: wordWrap at 80 breaks it
Long107 == Long35 \o Sp \o Long35 \o Sp \o Long35
HiddenText == <<"n","o","t"," ","f","o","r"," ","r","e","a","d","e","r","s"," ","t","o"," ","s","e","e">>
TitleNL == <<"M","y",NL,NL,NL,"D","o","c">>

AriaHiddenAttr == [NoAttr EXCEPT !.ariaHidden = "true"]
HiddenAttr == [NoAttr EXCEPT !.hidden = TRUE]
StyleSpAttr == [NoAttr EXCEPT !.style = DisplayNoneSp]
StyleAttr == [NoAttr EXCEPT !.style = <<"x",";">> \o DisplayNone \o <<";">>]
AdsAttr == [NoAttr EXCEPT !.class = {"box", "ads"}]
BannerAttr == [NoAttr EXCEPT !.role = "banner"]

\* Fragments of a body: each is a sequence of nodes in document order; `up` is
\* the position in the fragment of the node's parent, 0 for the body itself.
Pool ==
  << \* <h1>Hi</h1>
     << El("h1", 0), Tx(1, Hi) >>,
     \* <p>Some text here that is long enough.</p>
     << El("p", 0), Tx(1, Long35) >>,
     \* <h2>Hello World</h2>
     << El("h2", 0), Tx(1, HelloWorld) >>,
     \* <li>hello world</li>
     << El("li", 0), Tx(1, HelloWorldLc) >>,
     \* <p> 15 characters </p><p> 16 characters </p>
     << El("p", 0), Tx(1, Raw15), El("p", 0), Tx(3, Raw16) >>,
     \* <div> 20 characters </div><div><p> 21 characters </p></div>
     << El("div", 0), Tx(1, Raw20), El("div", 0), El("p", 3), Tx(4, Raw21) >>,
     \* <section><h2>Hello World</h2></section>
     << El("section", 0), El("h2", 1), Tx(2, HelloWorld) >>,
     \* <blockquote><h2>Hello World</h2></blockquote>
     << El("blockquote", 0), El("h2", 1), Tx(2, HelloWorld) >>,
     \* <section><p> 16 characters </p><aside>Side note</aside>
     \*   <div><aside>Side note</aside></div> tail text</section>
     << El("section", 0), El("p", 1), Tx(2, Raw16), El("aside", 1), Tx(4, SideNote),
        El("div", 1), El("aside", 6), Tx(7, SideNote), Tx(1, TailText) >>,
     \* <p aria-hidden="true">not for readers to see</p>
     << ElA("p", 0, AriaHiddenAttr), Tx(1, HiddenText) >>,
     \* <p hidden>..</p><div style="x;display:none;"><p>..</p></div>
     \* <p style="display: none">..</p><nav><li>hello world</li></nav>
     \* <p class="box ads">..</p><div role="banner">..</div>
     << ElA("p", 0, HiddenAttr), Tx(1, HiddenText),
        ElA("div", 0, StyleAttr), El("p", 3), Tx(4, HiddenText),
        ElA("p", 0, StyleSpAttr), Tx(6, HiddenText),
        El("nav", 0), El("li", 8), Tx(9, HelloWorldLc),
        ElA("p", 0, AdsAttr), Tx(11, Long35),
        ElA("div", 0, BannerAttr), Tx(13, Raw21) >>,
     \* <h3>Hi</h3> and a title element the parser left in the body, its text
     \* holding a run of newlines
     << El("h3", 0), Tx(1, Hi), El("title", 0), Tx(3, TitleNL) >>,
     \* <li>Hi <span>hello world</span><p>..</p></li><figcaption>Hi</figcaption>
     \* <pre>let  x\nx++</pre>
     << El("li", 0), Tx(1, Hi), El("span", 1), Tx(3, HelloWorldLc), El("p", 1), Tx(5, Raw21),
        El("figcaption", 0), Tx(7, Hi), El("pre", 0), Tx(9, CodeText) >>,
     \* a paragraph longer than the wrap width
     << El("p", 0), Tx(1, Long107) >>
  >>

RECURSIVE Place(_, _, _)
Place(blocks, body, offset) ==
  IF blocks = <<>> THEN <<>>
  ELSE LET b == Head(blocks) IN
       [i \in 1..Len(b) |->
          [tag |-> b[i].tag,
           parent |-> IF b[i].up = 0 THEN body ELSE offset + b[i].up,
           attr |-> b[i].attr,
           data |-> b[i].data]]
       \o Place(Tail(blocks), body, offset + Len(b))

Node(tag, parent, data) == [tag |-> tag, parent |-> parent, attr |-> NoAttr, data |-> data]

\* the tree cheerio.load builds: html, head (holding the title, if the markup
\* has one), body, and the fragments as the children of body
Build(withTitle, blocks) ==
  LET top == << Node("html", 0, <<>>), Node("head", 1, <<>>) >>
      ttl == IF withTitle
             THEN << Node("title", 2, <<>>), Node(TextTag, 3, DocTitle) >>
             ELSE <<>>
      pre == top \o ttl \o << Node("body", 1, <<>>) >>
  IN pre \o Place(blocks, Len(pre), Len(pre))

Docs ==
  { Build(t, [i \in DOMAIN bs |-> Pool[bs[i]]]) :
      t \in BOOLEAN,
      bs \in UNION { [1..n -> DOMAIN Pool] : n \in 0..MaxBlocks } }

----------------------------------------------------------------------------
(* State *)

VARIABLES
  doc,            \* the parsed document (the html POST fetched)
  pc,             \* the position of the run
  live,           \* the nodes still attached to the document ($)
  lines,          \* the array `lines` of the running extractor
  seen,           \* the Set `seen` of extractText
  title,          \* the constant `title` of the running extractor
  cursor,         \* the last element .each() visited
  trace,          \* history: one record per callback of .each()
  textOnly,       \* what extractText returned
  structuredText, \* what extractStructuredText returned
  result,         \* the FetchResult the component holds
  viewMode,       \* the component's view mode
  wtext,          \* SpecWrap: the text given to wordWrap
  wwidth,         \* SpecWrap: the width given to wordWrap
  wout,           \* SpecWrap: what wordWrap returned
  url,            \* the component's url state (the input field)
  loading,        \* the component's loading state
  error,          \* the component's error state
  requests,       \* how many requests the component has started
  body,           \* POST: the body of the request
  parsedUrl,      \* POST: the variable parsedUrl
  fetches,        \* POST: how many outbound fetches the handler has issued
  upstream,       \* POST: how the outbound fetch settled
  response        \* POST: the NextResponse the handler returned

vars == <<doc, pc, live, lines, seen, title, cursor, trace, textOnly,
          structuredText, result, viewMode, wtext, wwidth, wout,
          url, loading, error, requests, body, parsedUrl, fetches, upstream,
          response>>

\* the component's own state besides result and viewMode
sectionVars == <<url, loading, error, requests>>

\* the request and the locals of POST
postVars == <<body, parsedUrl, fetches, upstream, response>>

wrapVars == <<wtext, wwidth, wout>>

\* null: no FetchResult yet
Null == <<>>

AllNodes(d) == DOMAIN d

Underline(c, text, cap) == repeat(c, MinOf(Len(text), cap))

\* a message: the literal pieces and interpolated values of the string, in
\* order; the error state is Null or a message
Message(text) == <<text>>

\* no request: what body holds while POST is not running
NoBody == [kind |-> "none", hasUrl |-> FALSE, url |-> <<>>]

\* parsedUrl before its assignment
NoUrl == [protocol |-> <<>>, href |-> <<>>]

\* the outbound fetch has not settled
NoUpstream == [kind |-> "none", status |-> 0, statusText |-> ""]

\* POST has not returned
NoResponse == [status |-> 0, error |-> Null, data |-> Null]

\* useState(""), useState(false), useState(null) of FetcherSection
SectionIdle ==
  /\ url = <<>>
  /\ loading = FALSE
  /\ error = Null
  /\ requests = 0

\* no request is being handled
PostIdle ==
  /\ body = NoBody
  /\ parsedUrl = NoUrl
  /\ fetches = 0
  /\ upstream = NoUpstream
  /\ response = NoResponse

----------------------------------------------------------------------------
(* extractText *)

\* as formatParagraph, with the gate at 15 included
formatParagraphGE(text) ==
  IF Len(text) >= 15 THEN << wordWrap(text, 80), <<>> >> ELSE <<>>

\* the default case of the switch: p, article, section, main
formatParagraph(text) ==
  IF Len(text) > 15 THEN << wordWrap(text, 80), <<>> >> ELSE <<>>

\* the switch on tagName: the lines pushed for a block
formatText(tagName, text) ==
  CASE tagName = "h1" ->
         << <<>>, toUpperCase(text), Underline("=", text, 50), <<>> >>
    [] tagName = "h2" ->
         << <<>>, text, Underline("-", text, 40), <<>> >>
    [] tagName \in {"h3", "h4", "h5", "h6"} ->
         << <<>>, <<"[">> \o text \o <<"]">>, <<>> >>
    [] tagName = "li" ->
         << <<" ", " ", "-", " ">> \o text >>
    [] tagName = "blockquote" ->
         << <<>>, <<" ", " ", "\"">> \o text \o <<"\"">>, <<>> >>
    [] tagName \in {"td", "th"} ->
         << <<"|", " ">> \o text \o <<" ", "|">> >>
    [] tagName = "figcaption" ->
         << <<" ", " ", "(">> \o text \o <<")">> >>
    [] OTHER -> formatParagraph(text)

\* one callback of .each() in extractText, for element el: what it read, which
\* return it took and what it pushed
TextBlock(d, lv, sn, el) ==
  LET tagName == d[el].tag
      skipped == /\ \E a \in Ancestors(d, el) : d[a].tag \in TextContainers
                 /\ tagName \notin Headings
      leaves == TextLeaves(d, lv, el, TextExcluded)
      raw == trim(Concat(d, leaves))
      text == normalize(raw)
      textLower == toLowerCase(text)
      checked == ~skipped /\ raw # <<>> /\ Len(text) >= 3
      dup == checked /\ textLower \in sn
      kept == checked /\ ~dup
  IN [pipe |-> "text", node |-> el, tag |-> tagName, skipped |-> skipped,
      leaves |-> IF skipped THEN {} ELSE leaves,
      text |-> IF skipped THEN <<>> ELSE text,
      dup |-> dup, kept |-> kept,
      group |-> IF kept THEN formatText(tagName, text) ELSE <<>>]

\* the assembly of the result of extractText
assembleText(ls) ==
  trim(trim(CollapseNewlines(join(ls, <<NL>>))))

\* cheerio.load, the removals, lines = [], seen = new Set()
TextLoad ==
  /\ pc = "text_load"
  /\ live' = RemoveAll(doc, AllNodes(doc), TextNoise)
  /\ lines' = <<>>
  /\ seen' = {}
  /\ pc' = "text_title"
  /\ UNCHANGED <<doc, title, cursor, trace, textOnly, structuredText, result,
                 viewMode, wrapVars, sectionVars, postVars>>

\* the title block
TextTitle ==
  /\ pc = "text_title"
  /\ LET t == trim(Concat(doc, TitleLeaves(doc, live))) IN
       /\ title' = t
       /\ IF t # <<>>
          THEN /\ lines' = lines \o << t, Underline("=", t, 50), <<>> >>
               /\ seen' = seen \cup {toLowerCase(t)}
          ELSE UNCHANGED <<lines, seen>>
  /\ cursor' = 0
  /\ pc' = "text_walk"
  /\ UNCHANGED <<doc, live, trace, textOnly, structuredText, result, viewMode,
                 wrapVars, sectionVars, postVars>>

TextPending == {n \in Find(doc, live, TextSelected) : n > cursor}

MinNode(S) == CHOOSE n \in S : \A m \in S : n <= m

\* one callback of $("body").find(...).each()
TextVisit ==
  /\ pc = "text_walk"
  /\ TextPending # {}
  /\ LET el == MinNode(TextPending)
         b == TextBlock(doc, live, seen, el)
     IN /\ cursor' = el
        /\ trace' = Append(trace, b)
        /\ seen' = IF b.kept THEN seen \cup {toLowerCase(b.text)} ELSE seen
        /\ lines' = lines \o b.group
  /\ UNCHANGED <<doc, pc, live, title, textOnly, structuredText, result,
                 viewMode, wrapVars, sectionVars, postVars>>

\* the return statement of extractText
TextAssemble ==
  /\ pc = "text_walk"
  /\ TextPending = {}
  /\ textOnly' = assembleText(lines)
  /\ pc' = "struct_load"
  /\ UNCHANGED <<doc, live, lines, seen, title, cursor, trace, structuredText,
                 result, viewMode, wrapVars, sectionVars, postVars>>

----------------------------------------------------------------------------
(* extractStructuredText *)

\* the one-character string U+2022 (the bullet of the "li" case)
Bullet == "U+2022"

\* the cases "p" and "div" of the switch
formatBlock(text) ==
  IF Len(text) > 20 THEN << text, <<>> >> ELSE <<>>

\* the one-character string U+0060 (the backtick of the code fence)
Backtick == "U+0060"

Fence == <<Backtick, Backtick, Backtick>>

\* the switch on tagName: the lines pushed for a block
formatStructured(tagName, text) ==
  CASE tagName = "h1" -> << <<>>, <<"#", " ">> \o text, <<>> >>
    [] tagName = "h2" -> << <<>>, <<"#", "#", " ">> \o text, <<>> >>
    [] tagName = "h3" -> << <<>>, <<"#", "#", "#", " ">> \o text, <<>> >>
    [] tagName \in {"h4", "h5", "h6"} ->
         << <<>>, <<"#", "#", "#", "#", " ">> \o text, <<>> >>
    [] tagName = "li" -> << <<Bullet, " ">> \o text >>
    [] tagName = "blockquote" -> << <<">", " ">> \o text >>
    [] tagName = "pre" -> << Fence, text, Fence >>
    [] tagName \in {"p", "div"} -> formatBlock(text)
    [] OTHER -> <<>>

\* one callback of .each() in extractStructuredText, for element el
StructBlock(d, lv, el) ==
  LET tagName == d[el].tag
      skipped == /\ \E a \in Ancestors(d, el) : d[a].tag \in StructContainers
                 /\ tagName \notin {"a", "span"}
      leaves == TextLeaves(d, lv, el, StructExcluded)
      raw == trim(Concat(d, leaves))
      text == normalize(raw)
      kept == ~skipped /\ raw # <<>> /\ Len(text) >= 2
  IN [pipe |-> "structured", node |-> el, tag |-> tagName, skipped |-> skipped,
      leaves |-> IF skipped THEN {} ELSE leaves,
      text |-> IF skipped THEN <<>> ELSE text,
      dup |-> FALSE, kept |-> kept,
      group |-> IF kept THEN formatStructured(tagName, text) ELSE <<>>]

\* as assembleStructured, without the collapse of newline runs
assembleNoCollapse(ls) ==
  trim(join(ls, <<NL>>))

\* the assembly of the result of extractStructuredText
assembleStructured(ls) ==
  trim(CollapseNewlines(join(ls, <<NL>>)))

\* cheerio.load, the removals, lines = []
StructLoad ==
  /\ pc = "struct_load"
  /\ live' = RemoveAll(doc, AllNodes(doc), StructNoise)
  /\ lines' = <<>>
  /\ pc' = "struct_title"
  /\ UNCHANGED <<doc, seen, title, cursor, trace, textOnly, structuredText,
                 result, viewMode, wrapVars, sectionVars, postVars>>

\* the title line
StructTitle ==
  /\ pc = "struct_title"
  /\ LET t == trim(Concat(doc, TitleLeaves(doc, live))) IN
       /\ title' = t
       /\ lines' = IF t # <<>> THEN lines \o << <<"#", " ">> \o t, <<>> >> ELSE lines
  /\ cursor' = 0
  /\ pc' = "struct_walk"
  /\ UNCHANGED <<doc, live, seen, trace, textOnly, structuredText, result,
                 viewMode, wrapVars, sectionVars, postVars>>

StructPending == {n \in Find(doc, live, StructSelected) : n > cursor}

\* one callback of $("body").find(...).each()
StructVisit ==
  /\ pc = "struct_walk"
  /\ StructPending # {}
  /\ LET el == MinNode(StructPending)
         b == StructBlock(doc, live, el)
     IN /\ cursor' = el
        /\ trace' = Append(trace, b)
        /\ lines' = lines \o b.group
  /\ UNCHANGED <<doc, pc, live, seen, title, textOnly, structuredText, result,
                 viewMode, wrapVars, sectionVars, postVars>>

\* the return statement of extractStructuredText
StructAssemble ==
  /\ pc = "struct_walk"
  /\ StructPending = {}
  /\ structuredText' = assembleStructured(lines)
  /\ pc' = "respond"
  /\ UNCHANGED <<doc, live, lines, seen, title, cursor, trace, textOnly,
                 result, viewMode, wrapVars, sectionVars, postVars>>

----------------------------------------------------------------------------
(* The response of POST and the component that shows it *)

\* response.text(): the markup POST received, some string. The modelled code
\* reads the markup only through its parse (doc) and its length, so the model
\* draws it from two strings of different lengths.
Htmls == { <<"<","p",">","H","i">>, <<"<","b",">","H","i","<","/","b",">">> }

\* beautifyHtml(html, {...}): js-beautify re-indents the markup; the result is
\* some string that this repository does not determine
Beautified(html) == { html, <<" ", " ">> \o html \o <<NL>> }

ViewModes == {"beautified", "raw", "text", "structured"}

\* NextResponse.json({...}) of POST, received by fetchHtml as setResult(data)
Respond ==
  /\ pc = "respond"
  /\ \E html \in Htmls : \E beautifiedHtml \in Beautified(html) :
       result' = [html |-> beautifiedHtml,
                  rawHtml |-> html,
                  textOnly |-> textOnly,
                  structuredText |-> structuredText,
                  contentLength |-> Len(html),
                  beautifiedLength |-> Len(beautifiedHtml),
                  textLength |-> Len(textOnly)]
  /\ pc' = "view"
  /\ UNCHANGED <<doc, live, lines, seen, title, cursor, trace, textOnly,
                 structuredText, viewMode, wrapVars, sectionVars, postVars>>

\* a click on one of the four view buttons
SetViewMode ==
  /\ pc = "view"
  /\ \E m \in ViewModes : viewMode' = m
  /\ UNCHANGED <<doc, pc, live, lines, seen, title, cursor, trace, textOnly,
                 structuredText, result, wrapVars, sectionVars, postVars>>

getDisplayContent ==
  IF result = Null THEN <<>>
  ELSE CASE viewMode = "beautified" -> result.html
         [] viewMode = "raw" -> result.rawHtml
         [] viewMode = "text" -> result.textOnly
         [] viewMode = "structured" -> result.structuredText

getContentLength ==
  IF result = Null THEN 0
  ELSE CASE viewMode = "beautified" -> result.beautifiedLength
         [] viewMode = "raw" -> result.contentLength
         [] viewMode \in {"text", "structured"} -> result.textLength

----------------------------------------------------------------------------
(* new URL(url): the part of the WHATWG URL parser the handler relies on *)

Digits == <<"0","1","2","3","4","5","6","7","8","9">>

IsAlpha(c) == \E i \in DOMAIN LowerChars : c \in {LowerChars[i], UpperChars[i]}

IsSchemeChar(c) ==
  IsAlpha(c) \/ c \in {"+", "-", "."} \/ \E i \in DOMAIN Digits : Digits[i] = c

\* the position of the first c in s, 0 when there is none
IndexOf(s, c) ==
  IF \E i \in DOMAIN s : s[i] = c
  THEN CHOOSE i \in DOMAIN s : s[i] = c /\ \A k \in 1..(i - 1) : s[k] # c
  ELSE 0

\* the schemes whose URLs must name a host
SpecialSchemes ==
  { <<"h","t","t","p">>, <<"h","t","t","p","s">>, <<"f","t","p">>,
    <<"w","s">>, <<"w","s","s">> }

\* leading slashes of the part after the scheme are skipped
StripSlashes(s) ==
  IF \E i \in DOMAIN s : s[i] # "/"
  THEN LET i == CHOOSE j \in DOMAIN s : s[j] # "/" /\ \A k \in 1..(j - 1) : s[k] = "/"
       IN SubSeq(s, i, Len(s))
  ELSE <<>>

\* the result of new URL(input): ok is FALSE where the constructor throws
newURL(input) ==
  LET s      == trim(input)
      colon  == IndexOf(s, ":")
      scheme == toLowerCase(SubSeq(s, 1, colon - 1))
      rest   == SubSeq(s, colon + 1, Len(s))
      auth   == StripSlashes(rest)
      slash  == IndexOf(auth, "/")
      host   == IF slash = 0 THEN auth ELSE SubSeq(auth, 1, slash - 1)
      path   == IF slash = 0 THEN <<"/">> ELSE SubSeq(auth, slash, Len(auth))
      bad    == [ok |-> FALSE, protocol |-> <<>>, href |-> <<>>]
  IN IF colon < 2 \/ ~IsAlpha(s[1])
        \/ \E k \in 2..(colon - 1) : ~IsSchemeChar(s[k])
     THEN bad
     ELSE IF scheme \in SpecialSchemes
     THEN IF host = <<>> \/ \E k \in DOMAIN host : IsSpace(host[k])
          THEN bad
          ELSE [ok |-> TRUE,
                protocol |-> scheme \o <<":">>,
                href |-> scheme \o <<":", "/", "/">> \o toLowerCase(host) \o path]
     ELSE [ok |-> TRUE,
           protocol |-> scheme \o <<":">>,
           href |-> scheme \o <<":">> \o rest]

----------------------------------------------------------------------------
(* POST *)

protocolAllowedAny(protocol) == TRUE

\* ["http:", "https:"].includes(parsedUrl.protocol)
protocolAllowed(protocol) ==
  protocol \in { <<"h","t","t","p",":">>, <<"h","t","t","p","s",":">> }

\* NextResponse.json({ error }, { status })
ErrorResponse(status, message) ==
  [status |-> status, error |-> message, data |-> Null]

\* await request.json(), the destructuring of its result and the test of url.
\* A body that is not JSON makes request.json() reject, and a body that is
\* the JSON null cannot be destructured: both land in the catch at the end.
PostJson ==
  /\ pc = "post_json"
  /\ response' =
       IF body.kind = "malformed" THEN ErrorResponse(500, Message("SyntaxError"))
       ELSE IF body.kind = "null" THEN ErrorResponse(500, Message("TypeError"))
       ELSE IF ~body.hasUrl \/ body.url = <<>>
       THEN ErrorResponse(400, Message("URL is required"))
       ELSE response
  /\ pc' = IF body.kind = "object" /\ body.hasUrl /\ body.url # <<>>
           THEN "post_url" ELSE "post_done"
  /\ UNCHANGED <<doc, live, lines, seen, title, cursor, trace, textOnly,
                 structuredText, result, viewMode, wrapVars, sectionVars,
                 body, parsedUrl, fetches, upstream>>

\* the validation of the URL and, when it passes, the call of fetch
PostUrl ==
  /\ pc = "post_url"
  /\ LET u == newURL(body.url) IN
       IF u.ok /\ protocolAllowed(u.protocol)
       THEN /\ parsedUrl' = [protocol |-> u.protocol, href |-> u.href]
            /\ fetches' = fetches + 1
            /\ pc' = "post_fetch"
            /\ UNCHANGED response
       ELSE /\ response' = ErrorResponse(400, Message("Invalid URL format"))
            /\ pc' = "post_done"
            /\ UNCHANGED <<parsedUrl, fetches>>
  /\ UNCHANGED <<doc, live, lines, seen, title, cursor, trace, textOnly,
                 structuredText, result, viewMode, wrapVars, sectionVars,
                 body, upstream>>

\* how the outbound fetch can settle: a response of the upstream server, the
\* 15 s timeout of AbortSignal.timeout, or a failure of the connection
Upstreams ==
  { [kind |-> "response", status |-> 200, statusText |-> "OK"],
    [kind |-> "response", status |-> 400, statusText |-> "Bad Request"],
    [kind |-> "response", status |-> 404, statusText |-> "Not Found"],
    [kind |-> "response", status |-> 503, statusText |-> "Service Unavailable"],
    [kind |-> "timeout", status |-> 0, statusText |-> ""],
    [kind |-> "failed", status |-> 0, statusText |-> ""] }

\* response.ok
okAlways(r) == TRUE

ok(r) == r.kind = "response" /\ r.status \in 200..299

\* the parse of the markup response.text() delivers
PostDocs ==
  { Build(FALSE, <<>>),
    Build(TRUE, << Pool[1], Pool[2] >>),
    Build(TRUE, << Pool[3], Pool[4] >>),
    Build(FALSE, << Pool[6] >>),
    Build(FALSE, << Pool[9] >>) }

\* the outbound fetch settles: the handler answers a failure or a non-OK
\* response at once, and otherwise reads the markup and starts extractText
PostFetched ==
  /\ pc = "post_fetch"
  /\ \E r \in Upstreams :
       /\ upstream' = r
       /\ IF ok(r)
          THEN /\ doc' \in PostDocs
               /\ live' = AllNodes(doc')
               /\ pc' = "text_load"
               /\ UNCHANGED response
          ELSE /\ response' =
                    IF r.kind = "timeout"
                    THEN ErrorResponse(408, Message("Request timed out. The server took too long to respond."))
                    ELSE IF r.kind = "failed"
                    THEN ErrorResponse(500, Message("fetch failed"))
                    ELSE ErrorResponse(r.status,
                           <<"Failed to fetch: ", r.status, " ", r.statusText>>)
               /\ pc' = "post_done"
               /\ UNCHANGED <<doc, live>>
  /\ UNCHANGED <<lines, seen, title, cursor, trace, textOnly, structuredText,
                 result, viewMode, wrapVars, sectionVars, body, parsedUrl,
                 fetches>>

\* the body of the 200 response
FetchResult(html, beautifiedHtml) ==
  [html |-> beautifiedHtml,
   rawHtml |-> html,
   textOnly |-> textOnly,
   structuredText |-> structuredText,
   contentLength |-> Len(html),
   beautifiedLength |-> Len(beautifiedHtml),
   textLength |-> Len(textOnly)]

\* return NextResponse.json({...}) after both extractors
PostReturn ==
  /\ pc = "respond"
  /\ \E html \in Htmls : \E beautifiedHtml \in Beautified(html) :
       response' = [status |-> 200, error |-> Null,
                    data |-> FetchResult(html, beautifiedHtml)]
  /\ pc' = "post_done"
  /\ UNCHANGED <<doc, live, lines, seen, title, cursor, trace, textOnly,
                 structuredText, result, viewMode, wrapVars, sectionVars,
                 body, parsedUrl, fetches, upstream>>

----------------------------------------------------------------------------
(* FetcherSection: the url field, the Fetch button and the pending request *)

MaxRequests == 2

\* what a user types, and what any client can put in the url of a body
Urls ==
  { <<>>,
    <<" ", " ">>,
    <<"a", "b">>,
    <<"j","s",":","x">>,
    <<"f","t","p",":","/","/","a","/">>,
    <<"h","t","t","p",":","/","/">>,
    <<"H","T","T","P",":","/","/","A">>,
    <<" ","h","t","t","p","s",":","/","/","a","/","b"," ">> }

\* onChange of the input, which is disabled while loading
setUrl ==
  /\ ~loading
  /\ \E u \in Urls : url' = u
  /\ UNCHANGED <<doc, pc, live, lines, seen, title, cursor, trace, textOnly,
                 structuredText, result, viewMode, wrapVars, loading, error,
                 requests, postVars>>

\* fetchHtml up to its await, called by a click on the Fetch button (disabled
\* while loading) or by Enter in the input (ignored while loading); the
\* request it posts reaches POST, which starts with fresh locals
fetchHtml ==
  /\ ~loading
  /\ IF trim(url) = <<>>
     THEN /\ error' = Message("Please enter a URL")
          /\ UNCHANGED <<doc, pc, live, lines, seen, title, cursor, trace,
                         textOnly, structuredText, result, loading, requests,
                         postVars>>
     ELSE /\ requests < MaxRequests
          /\ requests' = requests + 1
          /\ loading' = TRUE
          /\ error' = Null
          /\ result' = Null
          /\ body' = [kind |-> "object", hasUrl |-> TRUE, url |-> trim(url)]
          /\ parsedUrl' = NoUrl
          /\ fetches' = 0
          /\ upstream' = NoUpstream
          /\ response' = NoResponse
          /\ doc' = Build(FALSE, <<>>)
          /\ live' = {}
          /\ lines' = <<>>
          /\ seen' = {}
          /\ title' = <<>>
          /\ cursor' = 0
          /\ trace' = <<>>
          /\ textOnly' = <<>>
          /\ structuredText' = <<>>
          /\ pc' = "post_json"
  /\ UNCHANGED <<url, viewMode, wrapVars>>

\* the rest of fetchHtml once the response of POST has arrived
fetchSettled ==
  /\ pc = "post_done"
  /\ IF response.status \in 200..299
     THEN /\ result' = response.data
          /\ UNCHANGED error
     ELSE /\ error' = IF response.error # Null THEN response.error
                      ELSE Message("Failed to fetch HTML")
          /\ UNCHANGED result
  /\ loading' = FALSE
  /\ pc' = "view"
  /\ UNCHANGED <<doc, live, lines, seen, title, cursor, trace, textOnly,
                 structuredText, viewMode, wrapVars, url, requests, postVars>>

\* the rest of fetchHtml when the request never reaches POST
fetchRejected ==
  /\ pc = "post_json"
  /\ loading
  /\ error' = Message("Failed to fetch")
  /\ loading' = FALSE
  /\ pc' = "view"
  /\ UNCHANGED <<doc, live, lines, seen, title, cursor, trace, textOnly,
                 structuredText, result, viewMode, wrapVars, url, requests,
                 postVars>>

----------------------------------------------------------------------------
(* The specification of a request: both extractors in turn, then the view *)

Init ==
  /\ doc \in Docs
  /\ pc = "text_load"
  /\ live = AllNodes(doc)
  /\ lines = <<>>
  /\ seen = {}
  /\ title = <<>>
  /\ cursor = 0
  /\ trace = <<>>
  /\ textOnly = <<>>
  /\ structuredText = <<>>
  /\ result = Null
  /\ viewMode = "beautified"
  /\ wtext = <<>>
  /\ wwidth = 0
  /\ wout = <<>>
  /\ SectionIdle
  /\ PostIdle

Next ==
  \/ TextLoad
  \/ TextTitle
  \/ TextVisit
  \/ TextAssemble
  \/ StructLoad
  \/ StructTitle
  \/ StructVisit
  \/ StructAssemble
  \/ Respond
  \/ SetViewMode

Spec == Init /\ [][Next]_vars

----------------------------------------------------------------------------
(* The specification of wordWrap alone: a call on a text and a width *)

MaxWords == 4
MaxWordLen == 4
MaxWidth == 10

\* the i-th word of a text: k times the i-th letter
WrapWord(i, k) == repeat(LowerChars[i], k)

\* whitespace-normalised texts: words separated by single spaces
WrapTexts ==
  { join([i \in DOMAIN ls |-> WrapWord(i, ls[i])], <<" ">>) :
      ls \in UNION { [1..n -> 1..MaxWordLen] : n \in 0..MaxWords } }

InitWrap ==
  /\ doc = Build(FALSE, <<>>)
  /\ pc = "wrap_call"
  /\ live = {}
  /\ lines = <<>>
  /\ seen = {}
  /\ title = <<>>
  /\ cursor = 0
  /\ trace = <<>>
  /\ textOnly = <<>>
  /\ structuredText = <<>>
  /\ result = Null
  /\ viewMode = "beautified"
  /\ wtext \in WrapTexts
  /\ wwidth \in 1..MaxWidth
  /\ wout = <<>>
  /\ SectionIdle
  /\ PostIdle

WrapCall ==
  /\ pc = "wrap_call"
  /\ wout' = wordWrap(wtext, wwidth)
  /\ pc' = "wrap_done"
  /\ UNCHANGED <<doc, live, lines, seen, title, cursor, trace, textOnly,
                 structuredText, result, viewMode, wtext, wwidth,
                 sectionVars, postVars>>

NextWrap == WrapCall

SpecWrap == InitWrap /\ [][NextWrap]_vars

----------------------------------------------------------------------------
(* The specification of POST alone: one request of any client *)

Bodies ==
  { [kind |-> "malformed", hasUrl |-> FALSE, url |-> <<>>],
    [kind |-> "null", hasUrl |-> FALSE, url |-> <<>>],
    [kind |-> "object", hasUrl |-> FALSE, url |-> <<>>] }
  \cup { [kind |-> "object", hasUrl |-> TRUE, url |-> u] : u \in Urls }

InitPost ==
  /\ doc = Build(FALSE, <<>>)
  /\ pc = "post_json"
  /\ live = {}
  /\ lines = <<>>
  /\ seen = {}
  /\ title = <<>>
  /\ cursor = 0
  /\ trace = <<>>
  /\ textOnly = <<>>
  /\ structuredText = <<>>
  /\ result = Null
  /\ viewMode = "beautified"
  /\ wtext = <<>>
  /\ wwidth = 0
  /\ wout = <<>>
  /\ SectionIdle
  /\ body \in Bodies
  /\ parsedUrl = NoUrl
  /\ fetches = 0
  /\ upstream = NoUpstream
  /\ response = NoResponse

NextPost ==
  \/ PostJson
  \/ PostUrl
  \/ PostFetched
  \/ TextLoad
  \/ TextTitle
  \/ TextVisit
  \/ TextAssemble
  \/ StructLoad
  \/ StructTitle
  \/ StructVisit
  \/ StructAssemble
  \/ PostReturn

SpecPost == InitPost /\ [][NextPost]_vars

----------------------------------------------------------------------------
(* The specification of a section: its requests, each handled by POST *)

InitFetch ==
  /\ doc = Build(FALSE, <<>>)
  /\ pc = "view"
  /\ live = {}
  /\ lines = <<>>
  /\ seen = {}
  /\ title = <<>>
  /\ cursor = 0
  /\ trace = <<>>
  /\ textOnly = <<>>
  /\ structuredText = <<>>
  /\ result = Null
  /\ viewMode = "beautified"
  /\ wtext = <<>>
  /\ wwidth = 0
  /\ wout = <<>>
  /\ SectionIdle
  /\ PostIdle

NextFetch ==
  \/ setUrl
  \/ fetchHtml
  \/ fetchSettled
  \/ fetchRejected
  \/ NextPost

SpecFetch == InitFetch /\ [][NextFetch]_vars

----------------------------------------------------------------------------
(* Properties *)

InText == pc \in {"text_title", "text_walk"}

\* extractText has returned and nothing has touched its buffer since
TextReturned == pc = "struct_load"

\* extractStructuredText has returned
StructReturned == pc = "respond"

IsPrefix(p, s) == Len(p) <= Len(s) /\ SubSeq(s, 1, Len(p)) = p

HasTripleNewline(s) ==
  \E i \in 1..(Len(s) - 2) : s[i] = NL /\ s[i + 1] = NL /\ s[i + 2] = NL

IsBlank(l) == \A i \in DOMAIN l : IsSpace(l[i])

NotBlank(l) == ~IsBlank(l)

\* the non-blank lines of a string
NonBlankLines(s) == SelectSeq(split(s, NL), NotBlank)

\* every text leaf below a title element of the document as parsed
DocTitleText == trim(Concat(doc, TitleLeaves(doc, AllNodes(doc))))

\* the title block: the title, then its underline
TitleBlock(t) == t \o <<NL>> \o Underline("=", t, 50)

ExampleDoc == Build(TRUE, << Pool[1], Pool[2] >>)

\* "Doc", "===", "", "HI", "==", "", the paragraph
ExampleText ==
  join(<< DocTitle, <<"=","=","=">>, <<>>, <<"H","I">>, <<"=","=">>, <<>>, Long35 >>, <<NL>>)

\* C1: when the document has a title element with non-empty trimmed text T, the
\* result of extractText begins with T and a line of min(len(T), 50) '='
\* characters, and what follows is separated from it by exactly one blank line;
\* the document <title>Doc</title><body><h1>Hi</h1><p>Some text here that is
\* long enough.</p></body> gives the title block, HI underlined, the paragraph.
C1_TitleBlockFirst ==
  TextReturned =>
    /\ DocTitleText # <<>> =>
         /\ IsPrefix(TitleBlock(DocTitleText), textOnly)
         /\ LET rest == SubSeq(textOnly, Len(TitleBlock(DocTitleText)) + 1, Len(textOnly))
            IN rest = <<>> \/ (Len(rest) >= 3 /\ rest[1] = NL /\ rest[2] = NL /\ rest[3] # NL)
    /\ doc = ExampleDoc => textOnly = ExampleText

SameIgnoringCase(a, b) == toLowerCase(a) = toLowerCase(b)

\* a line group carrying text t went into the buffer of extractText before
\* callback i: the title block, or the group of an earlier callback
EmittedBefore(t, i) ==
  \/ title # <<>> /\ SameIgnoringCase(title, t)
  \/ \E j \in 1..(i - 1) :
       /\ trace[j].pipe = "text"
       /\ trace[j].group # <<>>
       /\ SameIgnoringCase(trace[j].text, t)

\* C2: at every point of a run of extractText, a block is suppressed as a
\* duplicate only if a line group with the same text (ignoring case) was
\* emitted earlier in the run; every string of `seen` is the text of an emitted
\* group; of two blocks whose texts differ only in case the first produces
\* output and the second none.
C2_SuppressedOnlyIfEmitted ==
  InText =>
    /\ \A i \in DOMAIN trace : trace[i].dup => EmittedBefore(trace[i].text, i)
    /\ \A t \in seen :
         \/ title # <<>> /\ toLowerCase(title) = t
         \/ \E j \in DOMAIN trace : trace[j].group # <<>> /\ toLowerCase(trace[j].text) = t
    /\ \A i, j \in DOMAIN trace :
         ( /\ i < j
           /\ ~trace[i].skipped /\ ~trace[j].skipped
           /\ Len(trace[i].text) >= 3
           /\ trace[i].text # trace[j].text
           /\ SameIgnoringCase(trace[i].text, trace[j].text)
           /\ ~EmittedBefore(trace[i].text, i) )
         => trace[i].group # <<>> /\ trace[j].group = <<>>

\* C3: in either extractor, when element A produced output and a selected
\* element B that is not a heading is a strict descendant of A, B produces no
\* line of its own.
C3_NestedBlockNotReemitted ==
  \A i, j \in DOMAIN trace :
    ( /\ trace[i].pipe = trace[j].pipe
      /\ trace[i].group # <<>>
      /\ trace[i].node \in Ancestors(doc, trace[j].node)
      /\ trace[j].tag \notin Headings )
    => trace[j].group = <<>>

\* the normalised text extractText reads for element n
TextOf(n) == normalize(trim(Concat(doc, TextLeaves(doc, live, n, TextExcluded))))

\* C4: once extractText has returned, every heading of the body that lies
\* inside a blockquote, p, li, td, th or figcaption and whose normalised text
\* has at least 3 characters was emitted as a heading line group.
C4_NestedHeadingEmitted ==
  TextReturned =>
    \A n \in Find(doc, live, Headings) :
      ( /\ \E a \in Ancestors(doc, n) : doc[a].tag \in TextContainers
        /\ Len(TextOf(n)) >= 3 )
      => \E i \in DOMAIN trace :
           /\ trace[i].pipe = "text"
           /\ trace[i].node = n
           /\ trace[i].group = formatText(doc[n].tag, TextOf(n))

\* an element with a hidden attribute, an inline style holding "display: none"
\* or "display:none", or aria-hidden="true"
IsHiddenElement(n) ==
  \/ doc[n].attr.hidden
  \/ Contains(doc[n].attr.style, DisplayNoneSp)
  \/ Contains(doc[n].attr.style, DisplayNone)
  \/ doc[n].attr.ariaHidden = "true"

InHidden(m) == \E a \in Ancestors(doc, m) : IsHiddenElement(a)

\* C5: in either extractor, no text leaf inside a hidden element contributes
\* to a line group that was pushed.
C5_HiddenTextNeverOutput ==
  \A i \in DOMAIN trace :
    trace[i].group # <<>> => \A m \in trace[i].leaves : ~InHidden(m)

\* C6: in extractText, the text extracted for an element that is not skipped
\* holds no text leaf lying in a script, style, nav, footer, header or aside
\* subtree at any depth below the element.
C6_NoAsideTextAtAnyDepth ==
  \A i \in DOMAIN trace :
    (trace[i].pipe = "text" /\ ~trace[i].skipped) =>
      \A m \in trace[i].leaves :
        ~ \E a \in Ancestors(doc, m) :
            /\ trace[i].node \in Ancestors(doc, a)
            /\ doc[a].tag \in TextExcluded

\* the lines of a buffer that are not blank, the first without its leading
\* and the last without its trailing whitespace (the result is trimmed)
BufferLines(buf) ==
  LET l == NonBlankLines(join(buf, <<NL>>))
  IN [i \in DOMAIN l |->
        LET a == IF i = 1 THEN TrimLeft(l[i]) ELSE l[i]
        IN IF i = Len(l) THEN TrimRight(a) ELSE a]

Assembled(out, buf) ==
  /\ ~HasTripleNewline(out)
  /\ out = <<>> \/ (~IsSpace(out[1]) /\ ~IsSpace(out[Len(out)]))
  /\ NonBlankLines(out) = BufferLines(buf)

ExampleBuffer == << <<"a">>, <<>>, <<>>, <<>>, <<"b">> >>

\* C7: the string either extractor returns holds no run of 3 or more newlines,
\* neither starts nor ends with whitespace, and keeps the non-blank lines of
\* the buffer in their order; the buffer ["a","","","","b"] gives "a\n\nb".
C7_AssemblerShape ==
  /\ TextReturned => Assembled(textOnly, lines)
  /\ StructReturned => Assembled(structuredText, lines)
  /\ assembleText(ExampleBuffer) = <<"a", NL, NL, "b">>
  /\ assembleStructured(ExampleBuffer) = <<"a", NL, NL, "b">>

\* extractText returned for a buffer with an entry that holds newlines (a
\* wrapped paragraph) and whose join holds a run of 3 newlines
C7_Witness ==
  /\ TextReturned
  /\ HasTripleNewline(join(lines, <<NL>>))
  /\ \E i \in DOMAIN lines :
       /\ Len(lines[i]) > 80
       /\ \E k \in DOMAIN lines[i] : lines[i][k] = NL
  /\ textOnly # <<>>

\* C8: in extractText a p, article, section or main block that is neither
\* skipped nor a duplicate produces output exactly when its normalised text is
\* longer than 15; in extractStructuredText a p or div block that is not
\* skipped produces output exactly when its normalised text is longer than 20.
C8_LengthGate ==
  \A i \in DOMAIN trace :
    /\ ( /\ trace[i].pipe = "text"
         /\ trace[i].tag \in {"p", "article", "section", "main"}
         /\ ~trace[i].skipped /\ ~trace[i].dup )
       => (trace[i].group # <<>> <=> Len(trace[i].text) > 15)
    /\ ( /\ trace[i].pipe = "structured"
         /\ trace[i].tag \in {"p", "div"}
         /\ ~trace[i].skipped )
       => (trace[i].group # <<>> <=> Len(trace[i].text) > 20)

Visited(pipe, tag, len, out) ==
  \E i \in DOMAIN trace :
    /\ trace[i].pipe = pipe /\ trace[i].tag = tag
    /\ ~trace[i].skipped /\ ~trace[i].dup
    /\ Len(trace[i].text) = len
    /\ (trace[i].group # <<>>) = out

\* both extractors met blocks on either side of their gates
C8_Witness ==
  /\ Visited("text", "p", 15, FALSE)
  /\ Visited("text", "p", 16, TRUE)
  /\ Visited("structured", "div", 20, FALSE)
  /\ Visited("structured", "p", 21, TRUE)
  /\ Visited("structured", "div", 21, TRUE)

FirstWord(l) == split(l, " ")[1]

WrapExample == join(<< repeat("a", 4), repeat("b", 4), repeat("c", 4), repeat("d", 4) >>, <<" ">>)

WrapExampleOut ==
  join(<< repeat("a", 4), repeat("b", 4) >>, <<" ">>) \o <<NL>>
  \o join(<< repeat("c", 4), repeat("d", 4) >>, <<" ">>)

\* C9: the result of wordWrap is the greedy packing of the words: with the
\* newlines replaced by spaces it is the text again (words in order, none
\* split), a line is longer than the width only if it is a single word, and
\* a line ends only where the next word would not have fitted on it;
\* "aaaa bbbb cccc dddd" at width 9 gives "aaaa bbbb" and "cccc dddd".
C9_GreedyPacking ==
  pc = "wrap_done" =>
    LET l == split(wout, NL) IN
      /\ join(l, <<" ">>) = wtext
      /\ \A i \in DOMAIN l : Len(l[i]) <= wwidth \/ ~Contains(l[i], <<" ">>)
      /\ \A i \in 1..(Len(l) - 1) :
           /\ l[i] # <<>>
           /\ Len(l[i]) + 1 + Len(FirstWord(l[i + 1])) > wwidth
      /\ (wtext = WrapExample /\ wwidth = 9) => wout = WrapExampleOut

\* the example was wrapped, into two lines
C9_Witness ==
  /\ pc = "wrap_done"
  /\ wtext = WrapExample
  /\ wwidth = 9
  /\ Len(split(wout, NL)) = 2

\* C10: for every result and view mode, the count the section shows is the
\* length of the content it shows, copies and downloads.
C10_LengthMatchesContent ==
  result # Null => getContentLength = Len(getDisplayContent)

\* while a request is pending the section shows neither a result nor an error
LoadingClearsBoth == loading => (result = Null /\ error = Null)

\* C11: after any sequence of fetchHtml invocations, with an empty or a
\* non-empty URL and each request succeeding or failing, and of URL edits, the
\* section never holds a non-null result and a non-null error at the same
\* time, and whenever loading is true both result and error are null.
C11_ResultErrorExclusive ==
  /\ ~(result # Null /\ error # Null)
  /\ LoadingClearsBoth

\* a body POST must refuse: a JSON object without a url, with a url that
\* new URL cannot parse, or with a url of another scheme than http or https
Refused(b) ==
  /\ b.kind = "object"
  /\ \/ ~b.hasUrl
     \/ ~newURL(b.url).ok
     \/ newURL(b.url).protocol \notin
          { <<"h","t","t","p",":">>, <<"h","t","t","p","s",":">> }

\* an extractor has been started
Extracting ==
  \/ pc \in {"text_load", "text_title", "text_walk", "struct_load",
             "struct_title", "struct_walk", "respond"}
  \/ live # {}
  \/ trace # <<>>

UpstreamOk == upstream.kind = "response" /\ upstream.status \in 200..299

UpstreamNotOk == upstream.kind = "response" /\ upstream.status \notin 200..299

C12_UpstreamWitness ==
  /\ pc = "post_done"
  /\ UpstreamNotOk
  /\ response.status = upstream.status

\* POST has returned the extracted texts of a fetched document
C12_OkWitness ==
  /\ pc = "post_done"
  /\ UpstreamOk
  /\ response.status = 200
  /\ response.data # Null
  /\ response.data.textOnly # <<>>

====
